---------------------------- MODULE Spec2Model ----------------------------
(***************************************************************************)
(* sqlcheck: the anti-pattern rule engine of src/list.cpp.                 *)
(*                                                                         *)
(* A SQL statement is a std::string; it is modelled as a sequence of       *)
(* one-character strings, so that find, substr, size and the regular       *)
(* expressions of the rules are computed character by character.           *)
(***************************************************************************)
EXTENDS Integers, Sequences, FiniteSets

(***************************************************************************)
(* Characters and character classes of the regular expressions.            *)
(***************************************************************************)
Letters ==
  {"a","b","c","d","e","f","g","h","i","j","k","l","m",
   "n","o","p","q","r","s","t","u","v","w","x","y","z"}

Digits == {"0","1","2","3","4","5","6","7","8","9"}

Punctuation == {" ", "*", "(", ")", ",", "|", "=", ".", "_"}

\* every character a statement of the model is written with
Alphabet == Letters \cup Digits \cup Punctuation

\* \s : the statements are normalized, the only white space left is ' '
SpaceClass == {" "}

\* \S
NonSpaceClass == Alphabet \ SpaceClass

\* .  (any character but a line terminator; a statement holds none)
AnyClass == Alphabet

\* [0-9]
DigitClass == Digits

\* [A-za-z\-_@] : the range A-z is the code points 65..122, which holds the
\* lower-case letters and '_' (and, outside Alphabet, the upper-case letters
\* and [ \ ] ^ `); '-' and '@' are outside Alphabet too
TribbleClass == Letters \cup {"_"}

(***************************************************************************)
(* Regular expressions.  A regular expression is a sequence of branches    *)
(* (the alternatives of '|', in order); a branch is a sequence of items;   *)
(* an item is a literal text, or a character class with a quantifier:      *)
(* exactly one (lo = 1, many = FALSE), '?' (0, FALSE), '+' (1, TRUE) or    *)
(* '*' (0, TRUE).  Capture groups without a quantifier do not change what  *)
(* is matched.                                                             *)
(***************************************************************************)
Lit(text) == [lit |-> TRUE, text |-> text, cls |-> {}, lo |-> 0, many |-> FALSE]

One(cls) == [lit |-> FALSE, text |-> << >>, cls |-> cls, lo |-> 1, many |-> FALSE]

Opt(cls) == [lit |-> FALSE, text |-> << >>, cls |-> cls, lo |-> 0, many |-> FALSE]

Plus(cls) == [lit |-> FALSE, text |-> << >>, cls |-> cls, lo |-> 1, many |-> TRUE]

Star(cls) == [lit |-> FALSE, text |-> << >>, cls |-> cls, lo |-> 0, many |-> TRUE]

\* whether text occurs in s at position i
OccursAt(text, s, i) ==
  /\ i + Len(text) - 1 <= Len(s)
  /\ \A j \in 1..Len(text) : s[i + j - 1] = text[j]

\* the number of consecutive characters of s from position i that are in cls,
\* at most limit
Run(cls, s, i, limit) ==
  (CHOOSE j \in i..(i + limit) :
     /\ j = i + limit \/ j > Len(s) \/ s[j] \notin cls
     /\ \A k \in i..(j - 1) : k <= Len(s) /\ s[k] \in cls) - i

\* the positions where a match of the items k.. of branch that begins at
\* position i of s can end
RECURSIVE MatchEnds(_, _, _, _)
MatchEnds(branch, k, s, i) ==
  IF k > Len(branch) THEN {i}
  ELSE IF branch[k].lit
    THEN (IF OccursAt(branch[k].text, s, i)
            THEN MatchEnds(branch, k + 1, s, i + Len(branch[k].text))
            ELSE {})
  ELSE UNION { MatchEnds(branch, k + 1, s, i + n) :
                 n \in branch[k].lo ..
                       Run(branch[k].cls, s, i, IF branch[k].many THEN Len(s) ELSE 1) }

\* std::regex (ECMAScript, backtracking): the end of the match of the items
\* k.. of branch at position i of s, given that there is one that ends at
\* minEnd or later.  A quantifier is greedy: of the runs it can take, the
\* longest after which the rest of the branch still matches is taken.
RECURSIVE MatchEnd(_, _, _, _, _)
MatchEnd(branch, k, s, i, minEnd) ==
  IF k > Len(branch) THEN i
  ELSE IF branch[k].lit
    THEN MatchEnd(branch, k + 1, s, i + Len(branch[k].text), minEnd)
  ELSE MatchEnd(branch, k + 1, s,
         i + (CHOOSE n \in branch[k].lo ..
                    Run(branch[k].cls, s, i, IF branch[k].many THEN Len(s) ELSE 1) :
                /\ \E end \in MatchEnds(branch, k + 1, s, i + n) : end >= minEnd
                /\ \A m \in (n + 1) ..
                       Run(branch[k].cls, s, i, IF branch[k].many THEN Len(s) ELSE 1) :
                     \A end \in MatchEnds(branch, k + 1, s, i + m) : end < minEnd),
         minEnd)

\* whether branch b of regex matches at position i of s and ends at minEnd or
\* later
BranchMatches(regex, b, s, i, minEnd) ==
  \E end \in MatchEnds(regex[b], 1, s, i) : end >= minEnd

\* the end of the match of regex at position i of s: that of the first
\* branch that matches, 0 when none does
MatchAt(regex, s, i, minEnd) ==
  IF \E b \in 1..Len(regex) : BranchMatches(regex, b, s, i, minEnd)
    THEN MatchEnd(
           regex[CHOOSE b \in 1..Len(regex) :
                   /\ BranchMatches(regex, b, s, i, minEnd)
                   /\ \A c \in 1..(b - 1) : ~BranchMatches(regex, c, s, i, minEnd)],
           1, s, i, minEnd)
  ELSE 0

\* whether regex matches at position i of s
MatchesAt(regex, s, i) ==
  \E b \in 1..Len(regex) : BranchMatches(regex, b, s, i, i)

\* std::sregex_iterator: the number of matches it yields.  count[from] is
\* the number of matches from position from on; positions run from 1 to
\* Len(s) + 1.  The next match is the leftmost one.  After a non-empty match
\* the search goes on at its end.  After an empty match at the end of s the
\* iteration is over; after an empty match elsewhere, a non-empty match at
\* the same position is tried first and the search goes on one character
\* later otherwise.
CountMatches(regex, s) ==
  LET count[from \in 1..(Len(s) + 2)] ==
        IF \A p \in from..(Len(s) + 1) : ~MatchesAt(regex, s, p) THEN 0
        ELSE LET start == CHOOSE p \in from..(Len(s) + 1) :
                            /\ MatchesAt(regex, s, p)
                            /\ \A q \in from..(p - 1) : ~MatchesAt(regex, s, q)
                 end == MatchAt(regex, s, start, start)
                 next == MatchAt(regex, s, start, start + 1)
             IN IF end > start THEN 1 + count[end]
                ELSE IF start > Len(s) THEN 1
                ELSE IF next # 0 THEN 2 + count[next]
                ELSE 1 + count[start + 1]
  IN count[1]

(***************************************************************************)
(* std::string operations.                                                 *)
(***************************************************************************)
\* s.find(text): the first position where text occurs, 0 for npos
Find(text, s) ==
  IF \E i \in 1..(Len(s) - Len(text) + 1) : OccursAt(text, s, i)
    THEN CHOOSE i \in 1..(Len(s) - Len(text) + 1) :
           /\ OccursAt(text, s, i)
           /\ \A j \in 1..(i - 1) : ~OccursAt(text, s, j)
  ELSE 0

\* s.substr(pos), pos counted from 1
Substr(s, pos) == SubSeq(s, pos, Len(s))

(***************************************************************************)
(* UTILITY (list.cpp)                                                      *)
(***************************************************************************)
create_table_template == <<"c","r","e","a","t","e"," ","t","a","b","l","e">>

alter_table_template == <<"a","l","t","e","r"," ","t","a","b","l","e">>

\* std::regex_replace(rest, std::regex("^ +| +$|( ) +"), "$1"): the spaces at
\* the beginning ("^ +") and at the end (" +$") are removed, and a run of two
\* or more spaces inside ("( ) +") is replaced by its first space.  Character
\* i of rest is kept unless it is such a removed space.
KeptByStrip(rest, i) ==
  \/ rest[i] # " "
  \/ /\ \E j \in 1..(i - 1) : rest[j] # " "
     /\ \E j \in (i + 1)..Len(rest) : rest[j] # " "
     /\ rest[i - 1] # " "

StripSpaces(rest) ==
  LET indexed == [i \in 1..Len(rest) |-> <<i, rest[i]>>]
      Kept(pair) == KeptByStrip(rest, pair[1])
      kept == SelectSeq(indexed, Kept)
  IN [i \in 1..Len(kept) |-> kept[i][2]]

\* GetTableName without the std::regex_replace of line 22
GetTableName_unstripped(sql_statement) ==
  LET found == Find(create_table_template, sql_statement)
  IN IF found = 0 THEN << >>
     ELSE LET rest == Substr(sql_statement, found + Len(create_table_template))
              space == Find(<<" ">>, rest)
          IN IF space = 0 THEN rest ELSE SubSeq(rest, 1, space - 1)

\* std::string GetTableName(const std::string& sql_statement); "" is << >>
GetTableName(sql_statement) ==
  LET found == Find(create_table_template, sql_statement)
  IN IF found = 0 THEN << >>
     ELSE LET rest == StripSpaces(
                        Substr(sql_statement, found + Len(create_table_template)))
              space == Find(<<" ">>, rest)
          IN IF space = 0 THEN rest ELSE SubSeq(rest, 1, space - 1)

\* IsDDLStatement looking for the templates at the start of the statement only
IsDDLStatement_anchored(sql_statement) ==
  IF Find(create_table_template, sql_statement) = 1 THEN TRUE
  ELSE IF Find(alter_table_template, sql_statement) = 1 THEN TRUE
  ELSE FALSE

\* bool IsDDLStatement(const std::string& sql_statement)
IsDDLStatement(sql_statement) ==
  IF Find(create_table_template, sql_statement) # 0 THEN TRUE
  ELSE IF Find(alter_table_template, sql_statement) # 0 THEN TRUE
  ELSE FALSE

\* bool IsCreateStatement(const std::string& sql_statement)
IsCreateStatement(sql_statement) ==
  IF Find(create_table_template, sql_statement) # 0 THEN TRUE ELSE FALSE

(***************************************************************************)
(* The regular expressions of the rules (list.cpp), in catalog order.      *)
(***************************************************************************)
\* "(id\\s+varchar)|(id\\s+text)|(id\\s+regexp)"
MultiValuedAttributePattern ==
  << <<Lit(<<"i","d">>), Plus(SpaceClass), Lit(<<"v","a","r","c","h","a","r">>)>>,
     <<Lit(<<"i","d">>), Plus(SpaceClass), Lit(<<"t","e","x","t">>)>>,
     <<Lit(<<"i","d">>), Plus(SpaceClass), Lit(<<"r","e","g","e","x","p">>)>> >>

\* Whether std::regex accepts "(references\\s+" + table_name + ")": read
\* after the opening parenthesis of the group (depth 1), every ')' of
\* table_name must close an open '(' and the closing parenthesis of the
\* pattern must find exactly one group open; std::regex throws
\* std::regex_error otherwise.
ParensBalance(text) ==
  LET Opened(j) == Cardinality({k \in 1..j : text[k] = "("})
      Closed(j) == Cardinality({k \in 1..j : text[k] = ")"})
  IN /\ \A j \in 1..Len(text) : 1 + Opened(j) >= Closed(j)
     /\ Opened(Len(text)) = Closed(Len(text))

\* the items a part of table_name without '|' stands for inside the
\* pattern: '(' and ')' group without matching a character, '.' matches any
\* character, and every other character of a table name of the model (a
\* letter, a digit, '_', ',', '=') matches itself
NameItems(text) ==
  LET NotParen(c) == c \notin {"(", ")"}
      chars == SelectSeq(text, NotParen)
  IN [i \in 1..Len(chars) |->
        IF chars[i] = "." THEN One(AnyClass) ELSE One({chars[i]})]

\* the parts of table_name that its '|' characters separate, in order: the
\* alternatives that table_name makes of the pattern (in the table names of
\* the model a '|' is never inside parentheses)
NameAlternatives(text) ==
  LET cuts == {0} \cup {k \in 1..Len(text) : text[k] = "|"}
      Cut(j) == CHOOSE c \in cuts : Cardinality({d \in cuts : d < c}) = j - 1
      Close(c) == IF \E d \in cuts : d > c
                    THEN CHOOSE d \in cuts : d > c /\ \A e \in cuts : e > c => e >= d
                    ELSE Len(text) + 1
  IN [j \in 1..Cardinality(cuts) |-> SubSeq(text, Cut(j) + 1, Close(Cut(j)) - 1)]

\* "(references\\s+" + table_name + ")"
RecursiveDependencyPattern(table_name) ==
  [j \in 1..Len(NameAlternatives(table_name)) |->
     (IF j = 1 THEN <<Lit(<<"r","e","f","e","r","e","n","c","e","s">>), Plus(SpaceClass)>> ELSE << >>)
       \o NameItems(NameAlternatives(table_name)[j])]

\* "(primary key)"
PrimaryKeyPattern == << <<Lit(<<"p","r","i","m","a","r","y"," ","k","e","y">>)>> >>

\* "(\\s+[\\(]?id\\s+)|(,id\\s+)|(\\s+id\\s+serial)"
GenericPrimaryKeyPattern ==
  << <<Plus(SpaceClass), Opt({"("}), Lit(<<"i","d">>), Plus(SpaceClass)>>,
     <<Lit(<<",","i","d">>), Plus(SpaceClass)>>,
     <<Plus(SpaceClass), Lit(<<"i","d">>), Plus(SpaceClass), Lit(<<"s","e","r","i","a","l">>)>> >>

\* "(foreign key)"
ForeignKeyPattern == << <<Lit(<<"f","o","r","e","i","g","n"," ","k","e","y">>)>> >>

\* "(attribute)"
VariableAttributePattern == << <<Lit(<<"a","t","t","r","i","b","u","t","e">>)>> >>

\* "[A-za-z\\-_@]+[0-9]+ "
MetadataTribblesPattern ==
  << <<Plus(TribbleClass), Plus(DigitClass), One({" "})>> >>

\* "(float)|(real)|(double precision)|(0\\.000[0-9]*)"
FloatPattern ==
  << <<Lit(<<"f","l","o","a","t">>)>>, <<Lit(<<"r","e","a","l">>)>>, <<Lit(<<"d","o","u","b","l","e"," ","p","r","e","c","i","s","i","o","n">>)>>,
     <<Lit(<<"0",".","0","0","0">>), Star(DigitClass)>> >>

\* "(enum)|(in \\()"
ValuesInDefinitionPattern == << <<Lit(<<"e","n","u","m">>)>>, <<Lit(<<"i","n"," ","(">>)>> >>

\* "(path varchar)|(unlink\\s?\\()"
ExternalFilesPattern ==
  << <<Lit(<<"p","a","t","h"," ","v","a","r","c","h","a","r">>)>>,
     <<Lit(<<"u","n","l","i","n","k">>), Opt(SpaceClass), One({"("})>> >>

\* "(index)"
IndexCountPattern == << <<Lit(<<"i","n","d","e","x">>)>> >>

\* "(create index)"
IndexAttributeOrderPattern == << <<Lit(<<"c","r","e","a","t","e"," ","i","n","d","e","x">>)>> >>

\* "(select\\s+\\*)"
SelectStarPattern == << <<Lit(<<"s","e","l","e","c","t">>), Plus(SpaceClass), One({"*"})>> >>

\* "(null)"
NullUsagePattern == << <<Lit(<<"n","u","l","l">>)>> >>

\* "(not null)"
NotNullUsagePattern == << <<Lit(<<"n","o","t"," ","n","u","l","l">>)>> >>

\* "\\|\\|"
ConcatenationPattern == << <<Lit(<<"|","|">>)>> >>

\* "(group by)"
GroupByUsagePattern == << <<Lit(<<"g","r","o","u","p"," ","b","y">>)>> >>

\* "(order by rand\\()"
OrderByRandPattern == << <<Lit(<<"o","r","d","e","r"," ","b","y"," ","r","a","n","d","(">>)>> >>

\* "(like)|(regexp)|(similar to)"
PatternMatchingPattern == << <<Lit(<<"l","i","k","e">>)>>, <<Lit(<<"r","e","g","e","x","p">>)>>, <<Lit(<<"s","i","m","i","l","a","r"," ","t","o">>)>> >>

\* std::regex true_pattern(".*")
true_pattern == << <<Star(AnyClass)>> >>

\* std::regex false_pattern("pattern must not exist")
false_pattern == << <<Lit(<<"p","a","t","t","e","r","n"," ","m","u","s","t"," ","n","o","t"," ","e","x","i","s","t">>)>> >>

\* "(join)"
JoinCountPattern == << <<Lit(<<"j","o","i","n">>)>> >>

\* "(distinct)"
DistinctCountPattern == << <<Lit(<<"d","i","s","t","i","n","c","t">>)>> >>

\* "(insert into \\S+ values)"
ImplicitColumnsPattern ==
  << <<Lit(<<"i","n","s","e","r","t"," ","i","n","t","o"," ">>), Plus(NonSpaceClass), Lit(<<" ","v","a","l","u","e","s">>)>> >>

\* "(having)"
HavingPattern == << <<Lit(<<"h","a","v","i","n","g">>)>> >>

\* "(select)"
NestingPattern == << <<Lit(<<"s","e","l","e","c","t">>)>> >>

\* "(or)"
OrPattern == << <<Lit(<<"o","r">>)>> >>

\* "(union)"
UnionPattern == << <<Lit(<<"u","n","i","o","n">>)>> >>

\* "(distinct.*join)"
DistinctJoinPattern ==
  << <<Lit(<<"d","i","s","t","i","n","c","t">>), Star(AnyClass), Lit(<<"j","o","i","n">>)>> >>

\* "(password varchar)|(password text)|(password =)|"
\* "(pwd varchar)|(pwd text)|(pwd =)"
ReadablePasswordsPattern ==
  << <<Lit(<<"p","a","s","s","w","o","r","d"," ","v","a","r","c","h","a","r">>)>>, <<Lit(<<"p","a","s","s","w","o","r","d"," ","t","e","x","t">>)>>, <<Lit(<<"p","a","s","s","w","o","r","d"," ","=">>)>>,
     <<Lit(<<"p","w","d"," ","v","a","r","c","h","a","r">>)>>, <<Lit(<<"p","w","d"," ","t","e","x","t">>)>>, <<Lit(<<"p","w","d"," ","=">>)>> >>

(***************************************************************************)
(* Risk levels, pattern types and the configuration.                       *)
(***************************************************************************)
LogLevels == {"LOG_LEVEL_INFO", "LOG_LEVEL_WARN", "LOG_LEVEL_ERROR"}

PatternTypes ==
  {"PATTERN_TYPE_LOGICAL_DATABASE_DESIGN", "PATTERN_TYPE_PHYSICAL_DATABASE_DESIGN",
   "PATTERN_TYPE_QUERY", "PATTERN_TYPE_APPLICATION"}

\* the risk levels in order: low (1), medium (2), high (3)
RiskRank(level) ==
  CASE level = "LOG_LEVEL_INFO" -> 1
    [] level = "LOG_LEVEL_WARN" -> 2
    [] level = "LOG_LEVEL_ERROR" -> 3

\* Admits with the slip of a strict comparison
Admits_strict(level, risk_level) == RiskRank(level) > risk_level

\* Admits with the slip of the comparison turned round
Admits_inverted(level, risk_level) == RiskRank(level) <= risk_level

\* -r --risk_level: 1 (all anti-patterns), 2 (only medium and high risk
\* anti-patterns), 3 (only high risk anti-patterns)
Admits(level, risk_level) == RiskRank(level) >= risk_level

\* a rule called without min_count fires on one match
default_min_count == 1

(***************************************************************************)
(* The run's mutable data, threaded through the rule functions as the      *)
(* record w: print_statement (the bool& of every rule function), the       *)
(* report, the counters of the summary, the statements echoed, and whether *)
(* a std::regex_error was thrown.  A finding is the record of one rule     *)
(* firing on one statement.                                                *)
(***************************************************************************)
Finding(statement, title, level, type, count) ==
  [statement |-> statement, title |-> title, risk |-> level,
   type |-> type, match_count |-> count]

\* the rule fires when the pattern occurs at least min_count times (exists)
\* or does not occur at all (not exists)
Fires(count, exists, min_count) ==
  IF exists THEN count >= min_count ELSE count = 0

\* Report with the slip of counting the total once for a statement
Report_total_per_statement(state, w, pattern_level, pattern_type, title, exists, min_count, count) ==
  IF ~Fires(count, exists, min_count) THEN w
  ELSE IF ~Admits(pattern_level, state.risk_level) THEN w
  ELSE [w EXCEPT
          !.report = Append(@, Finding(w.statement_no, title, pattern_level,
                                       pattern_type, count)),
          !.risk_count[pattern_level] = @ + 1,
          !.type_count[pattern_type] = @ + 1,
          !.total_count = IF w.print_statement THEN @ + 1 ELSE @,
          !.echoed = IF w.print_statement /\ state.verbose_mode
                       THEN Append(@, w.statement_no) ELSE @,
          !.print_statement = FALSE]

\* Report with the slip of putting the finding at the head of the report
Report_prepend(state, w, pattern_level, pattern_type, title, exists, min_count, count) ==
  IF ~Fires(count, exists, min_count) THEN w
  ELSE IF ~Admits(pattern_level, state.risk_level) THEN w
  ELSE [w EXCEPT
          !.report = <<Finding(w.statement_no, title, pattern_level,
                               pattern_type, count)>> \o @,
          !.risk_count[pattern_level] = @ + 1,
          !.type_count[pattern_type] = @ + 1,
          !.total_count = @ + 1,
          !.echoed = IF w.print_statement /\ state.verbose_mode
                       THEN Append(@, w.statement_no) ELSE @,
          !.print_statement = FALSE]

\* a rule that fires and is admitted by the risk filter appends a finding,
\* counts once in the summary, and has the statement echoed when the finding
\* is the statement's first
Report(state, w, pattern_level, pattern_type, title, exists, min_count, count) ==
  IF ~Fires(count, exists, min_count) THEN w
  ELSE IF ~Admits(pattern_level, state.risk_level) THEN w
  ELSE [w EXCEPT
          !.report = Append(@, Finding(w.statement_no, title, pattern_level,
                                       pattern_type, count)),
          !.risk_count[pattern_level] = @ + 1,
          !.type_count[pattern_type] = @ + 1,
          !.total_count = @ + 1,
          !.echoed = IF w.print_statement /\ state.verbose_mode
                       THEN Append(@, w.statement_no) ELSE @,
          !.print_statement = FALSE]

\* void CheckPattern(state, sql_statement, print_statement, anti_pattern,
\*                   pattern_level, pattern_type, title, message, exists,
\*                   min_count)
CheckPattern(state, sql_statement, w, anti_pattern, pattern_level, pattern_type, title, exists, min_count) ==
  Report(state, w, pattern_level, pattern_type, title, exists, min_count,
         CountMatches(anti_pattern, sql_statement))

(***************************************************************************)
(* LOGICAL DATABASE DESIGN                                                 *)
(***************************************************************************)
CheckMultiValuedAttribute(state, sql_statement, w) ==
  CheckPattern(state, sql_statement, w, MultiValuedAttributePattern,
               "LOG_LEVEL_ERROR", "PATTERN_TYPE_LOGICAL_DATABASE_DESIGN",
               "Multi-Valued Attribute", TRUE, default_min_count)

\* CheckRecursiveDependency without the early return of an empty table name
CheckRecursiveDependency_unguarded(state, sql_statement, w) ==
  LET table_name == GetTableName(sql_statement)
  IN IF ~ParensBalance(table_name) THEN [w EXCEPT !.regex_error = TRUE]
     ELSE CheckPattern(state, sql_statement, w,
                       RecursiveDependencyPattern(table_name),
                       "LOG_LEVEL_ERROR", "PATTERN_TYPE_LOGICAL_DATABASE_DESIGN",
                       "Recursive Dependency", TRUE, default_min_count)

CheckRecursiveDependency(state, sql_statement, w) ==
  LET table_name == GetTableName(sql_statement)
  IN IF table_name = << >> THEN w
     ELSE IF ~ParensBalance(table_name) THEN [w EXCEPT !.regex_error = TRUE]
     ELSE CheckPattern(state, sql_statement, w,
                       RecursiveDependencyPattern(table_name),
                       "LOG_LEVEL_ERROR", "PATTERN_TYPE_LOGICAL_DATABASE_DESIGN",
                       "Recursive Dependency", TRUE, default_min_count)

\* CheckPrimaryKeyExists without the early return of a statement that is no
\* CREATE TABLE
CheckPrimaryKeyExists_unguarded(state, sql_statement, w) ==
  CheckPattern(state, sql_statement, w, PrimaryKeyPattern,
               "LOG_LEVEL_WARN", "PATTERN_TYPE_LOGICAL_DATABASE_DESIGN",
               "Primary Key Does Not Exist", FALSE, default_min_count)

\* CheckPrimaryKeyExists with the slip of passing exists = true
CheckPrimaryKeyExists_exists(state, sql_statement, w) ==
  IF ~IsCreateStatement(sql_statement) THEN w
  ELSE CheckPattern(state, sql_statement, w, PrimaryKeyPattern,
                    "LOG_LEVEL_WARN", "PATTERN_TYPE_LOGICAL_DATABASE_DESIGN",
                    "Primary Key Does Not Exist", TRUE, default_min_count)

CheckPrimaryKeyExists(state, sql_statement, w) ==
  IF IsCreateStatement(sql_statement) = FALSE THEN w
  ELSE CheckPattern(state, sql_statement, w, PrimaryKeyPattern,
                    "LOG_LEVEL_WARN", "PATTERN_TYPE_LOGICAL_DATABASE_DESIGN",
                    "Primary Key Does Not Exist", FALSE, default_min_count)

\* CheckGenericPrimaryKey with the slip of a print_statement of its own
\* instead of the caller's
CheckGenericPrimaryKey_reprint(state, sql_statement, w) ==
  IF IsDDLStatement(sql_statement) = FALSE THEN w
  ELSE CheckPattern(state, sql_statement, [w EXCEPT !.print_statement = TRUE],
                    GenericPrimaryKeyPattern,
                    "LOG_LEVEL_ERROR", "PATTERN_TYPE_LOGICAL_DATABASE_DESIGN",
                    "Generic Primary Key", TRUE, default_min_count)

\* CheckGenericPrimaryKey without the early return of a statement that is no DDL
CheckGenericPrimaryKey_unguarded(state, sql_statement, w) ==
  CheckPattern(state, sql_statement, w, GenericPrimaryKeyPattern,
               "LOG_LEVEL_ERROR", "PATTERN_TYPE_LOGICAL_DATABASE_DESIGN",
               "Generic Primary Key", TRUE, default_min_count)

CheckGenericPrimaryKey(state, sql_statement, w) ==
  IF IsDDLStatement(sql_statement) = FALSE THEN w
  ELSE CheckPattern(state, sql_statement, w, GenericPrimaryKeyPattern,
                    "LOG_LEVEL_ERROR", "PATTERN_TYPE_LOGICAL_DATABASE_DESIGN",
                    "Generic Primary Key", TRUE, default_min_count)

\* CheckForeignKeyExists with the slip of passing exists = true
CheckForeignKeyExists_exists(state, sql_statement, w) ==
  IF IsCreateStatement(sql_statement) = FALSE THEN w
  ELSE CheckPattern(state, sql_statement, w, ForeignKeyPattern,
                    "LOG_LEVEL_WARN", "PATTERN_TYPE_LOGICAL_DATABASE_DESIGN",
                    "Foreign Key Does Not Exist", TRUE, default_min_count)

CheckForeignKeyExists(state, sql_statement, w) ==
  IF IsCreateStatement(sql_statement) = FALSE THEN w
  ELSE CheckPattern(state, sql_statement, w, ForeignKeyPattern,
                    "LOG_LEVEL_WARN", "PATTERN_TYPE_LOGICAL_DATABASE_DESIGN",
                    "Foreign Key Does Not Exist", FALSE, default_min_count)

attribute_text == <<"a","t","t","r","i","b","u","t","e">>

\* CheckVariableAttribute with the slip of passing exists = false
CheckVariableAttribute_absent(state, sql_statement, w) ==
  LET table_name == GetTableName(sql_statement)
  IN IF table_name = << >> THEN w
     ELSE IF Find(attribute_text, table_name) = 0 THEN w
     ELSE CheckPattern(state, sql_statement, w, VariableAttributePattern,
                       "LOG_LEVEL_WARN", "PATTERN_TYPE_LOGICAL_DATABASE_DESIGN",
                       "Entity-Attribute-Value Pattern", FALSE, default_min_count)

\* CheckVariableAttribute without the search of "attribute" in the table name
CheckVariableAttribute_body(state, sql_statement, w) ==
  LET table_name == GetTableName(sql_statement)
  IN IF table_name = << >> THEN w
     ELSE CheckPattern(state, sql_statement, w, VariableAttributePattern,
                       "LOG_LEVEL_WARN", "PATTERN_TYPE_LOGICAL_DATABASE_DESIGN",
                       "Entity-Attribute-Value Pattern", TRUE, default_min_count)

CheckVariableAttribute(state, sql_statement, w) ==
  LET table_name == GetTableName(sql_statement)
  IN IF table_name = << >> THEN w
     ELSE IF Find(attribute_text, table_name) = 0 THEN w
     ELSE CheckPattern(state, sql_statement, w, VariableAttributePattern,
                       "LOG_LEVEL_WARN", "PATTERN_TYPE_LOGICAL_DATABASE_DESIGN",
                       "Entity-Attribute-Value Pattern", TRUE, default_min_count)

CheckMetadataTribbles(state, sql_statement, w) ==
  IF IsDDLStatement(sql_statement) = FALSE THEN w
  ELSE CheckPattern(state, sql_statement, w, MetadataTribblesPattern,
                    "LOG_LEVEL_ERROR", "PATTERN_TYPE_LOGICAL_DATABASE_DESIGN",
                    "Metadata Tribbles", TRUE, default_min_count)

(***************************************************************************)
(* PHYSICAL DATABASE DESIGN                                                *)
(***************************************************************************)
CheckFloat(state, sql_statement, w) ==
  CheckPattern(state, sql_statement, w, FloatPattern,
               "LOG_LEVEL_ERROR", "PATTERN_TYPE_PHYSICAL_DATABASE_DESIGN",
               "Imprecise Data Type", TRUE, default_min_count)

\* CheckValuesInDefinition with the slip of reporting at LOG_LEVEL_ERROR
CheckValuesInDefinition_error(state, sql_statement, w) ==
  IF IsDDLStatement(sql_statement) = FALSE THEN w
  ELSE CheckPattern(state, sql_statement, w, ValuesInDefinitionPattern,
                    "LOG_LEVEL_ERROR", "PATTERN_TYPE_PHYSICAL_DATABASE_DESIGN",
                    "Values In Definition", TRUE, default_min_count)

CheckValuesInDefinition(state, sql_statement, w) ==
  IF IsDDLStatement(sql_statement) = FALSE THEN w
  ELSE CheckPattern(state, sql_statement, w, ValuesInDefinitionPattern,
                    "LOG_LEVEL_WARN", "PATTERN_TYPE_PHYSICAL_DATABASE_DESIGN",
                    "Values In Definition", TRUE, default_min_count)

CheckExternalFiles(state, sql_statement, w) ==
  CheckPattern(state, sql_statement, w, ExternalFilesPattern,
               "LOG_LEVEL_WARN", "PATTERN_TYPE_PHYSICAL_DATABASE_DESIGN",
               "Files Are Not SQL Data Types", TRUE, default_min_count)

\* std::size_t min_count = 3;
index_min_count == 3

\* CheckIndexCount with the slip of leaving out the CREATE TABLE guard
CheckIndexCount_unguarded(state, sql_statement, w) ==
  CheckPattern(state, sql_statement, w, IndexCountPattern,
               "LOG_LEVEL_WARN", "PATTERN_TYPE_PHYSICAL_DATABASE_DESIGN",
               "Too Many Indexes", TRUE, index_min_count)

CheckIndexCount(state, sql_statement, w) ==
  IF IsCreateStatement(sql_statement) = FALSE THEN w
  ELSE CheckPattern(state, sql_statement, w, IndexCountPattern,
                    "LOG_LEVEL_WARN", "PATTERN_TYPE_PHYSICAL_DATABASE_DESIGN",
                    "Too Many Indexes", TRUE, index_min_count)

CheckIndexAttributeOrder(state, sql_statement, w) ==
  CheckPattern(state, sql_statement, w, IndexAttributeOrderPattern,
               "LOG_LEVEL_INFO", "PATTERN_TYPE_PHYSICAL_DATABASE_DESIGN",
               "Index Attribute Order", TRUE, default_min_count)

(***************************************************************************)
(* QUERY                                                                   *)
(***************************************************************************)
\* CheckSelectStar with the slip of reporting only while the run has counted
\* nothing
CheckSelectStar_once(state, sql_statement, w) ==
  IF w.total_count > 0 THEN w
  ELSE CheckPattern(state, sql_statement, w, SelectStarPattern,
                    "LOG_LEVEL_ERROR", "PATTERN_TYPE_QUERY",
                    "SELECT *", TRUE, default_min_count)

\* CheckSelectStar with the slip of a repeated call of CheckPattern
CheckSelectStar_twice(state, sql_statement, w) ==
  CheckPattern(state, sql_statement,
               CheckPattern(state, sql_statement, w, SelectStarPattern,
                            "LOG_LEVEL_ERROR", "PATTERN_TYPE_QUERY",
                            "SELECT *", TRUE, default_min_count),
               SelectStarPattern,
               "LOG_LEVEL_ERROR", "PATTERN_TYPE_QUERY",
               "SELECT *", TRUE, default_min_count)

\* CheckSelectStar with the slip of reporting at LOG_LEVEL_WARN
CheckSelectStar_warn(state, sql_statement, w) ==
  CheckPattern(state, sql_statement, w, SelectStarPattern,
               "LOG_LEVEL_WARN", "PATTERN_TYPE_QUERY",
               "SELECT *", TRUE, default_min_count)

CheckSelectStar(state, sql_statement, w) ==
  CheckPattern(state, sql_statement, w, SelectStarPattern,
               "LOG_LEVEL_ERROR", "PATTERN_TYPE_QUERY",
               "SELECT *", TRUE, default_min_count)

CheckNullUsage(state, sql_statement, w) ==
  CheckPattern(state, sql_statement, w, NullUsagePattern,
               "LOG_LEVEL_INFO", "PATTERN_TYPE_QUERY",
               "NULL Usage", TRUE, default_min_count)

\* CheckNotNullUsage with the guard of the rules for CREATE and ALTER TABLE
CheckNotNullUsage_ddl(state, sql_statement, w) ==
  IF IsDDLStatement(sql_statement) = FALSE THEN w
  ELSE CheckPattern(state, sql_statement, w, NotNullUsagePattern,
                    "LOG_LEVEL_WARN", "PATTERN_TYPE_QUERY",
                    "NOT NULL Usage", TRUE, default_min_count)

CheckNotNullUsage(state, sql_statement, w) ==
  IF IsCreateStatement(sql_statement) = FALSE THEN w
  ELSE CheckPattern(state, sql_statement, w, NotNullUsagePattern,
                    "LOG_LEVEL_WARN", "PATTERN_TYPE_QUERY",
                    "NOT NULL Usage", TRUE, default_min_count)

CheckConcatenation(state, sql_statement, w) ==
  CheckPattern(state, sql_statement, w, ConcatenationPattern,
               "LOG_LEVEL_INFO", "PATTERN_TYPE_QUERY",
               "String Concatenation", TRUE, default_min_count)

CheckGroupByUsage(state, sql_statement, w) ==
  CheckPattern(state, sql_statement, w, GroupByUsagePattern,
               "LOG_LEVEL_INFO", "PATTERN_TYPE_QUERY",
               "GROUP BY Usage", TRUE, default_min_count)

CheckOrderByRand(state, sql_statement, w) ==
  CheckPattern(state, sql_statement, w, OrderByRandPattern,
               "LOG_LEVEL_WARN", "PATTERN_TYPE_QUERY",
               "ORDER BY RAND Usage", TRUE, default_min_count)

CheckPatternMatching(state, sql_statement, w) ==
  CheckPattern(state, sql_statement, w, PatternMatchingPattern,
               "LOG_LEVEL_WARN", "PATTERN_TYPE_QUERY",
               "Pattern Matching Usage", TRUE, default_min_count)

\* std::size_t spaghetti_query_char_count = 500;
spaghetti_query_char_count == 500

CheckSpaghettiQuery(state, sql_statement, w) ==
  LET pattern == IF Len(sql_statement) >= spaghetti_query_char_count
                   THEN true_pattern ELSE false_pattern
  IN CheckPattern(state, sql_statement, w, pattern,
                  "LOG_LEVEL_INFO", "PATTERN_TYPE_QUERY",
                  "Spaghetti Query Alert", TRUE, default_min_count)

\* std::size_t min_count = 5;
\* min_count with the slip of one more
join_min_count_six == 5 + 1

join_min_count == 5

\* CheckJoinCount with the slip of a risk that grows with the match count
CheckJoinCount_escalating(state, sql_statement, w) ==
  CheckPattern(state, sql_statement, w, JoinCountPattern,
               IF CountMatches(JoinCountPattern, sql_statement) >= join_min_count
                 THEN "LOG_LEVEL_WARN" ELSE "LOG_LEVEL_INFO",
               "PATTERN_TYPE_QUERY",
               "Reduce Number of JOINs", TRUE, join_min_count)

CheckJoinCount(state, sql_statement, w) ==
  CheckPattern(state, sql_statement, w, JoinCountPattern,
               "LOG_LEVEL_INFO", "PATTERN_TYPE_QUERY",
               "Reduce Number of JOINs", TRUE, join_min_count)

\* std::size_t min_count = 5;
distinct_min_count == 5

CheckDistinctCount(state, sql_statement, w) ==
  CheckPattern(state, sql_statement, w, DistinctCountPattern,
               "LOG_LEVEL_INFO", "PATTERN_TYPE_QUERY",
               "Eliminate Unnecessary DISTINCT Conditions", TRUE,
               distinct_min_count)

CheckImplicitColumns(state, sql_statement, w) ==
  CheckPattern(state, sql_statement, w, ImplicitColumnsPattern,
               "LOG_LEVEL_INFO", "PATTERN_TYPE_QUERY",
               "Implicit Column Usage", TRUE, default_min_count)

CheckHaving(state, sql_statement, w) ==
  CheckPattern(state, sql_statement, w, HavingPattern,
               "LOG_LEVEL_INFO", "PATTERN_TYPE_QUERY",
               "HAVING Clause Usage", TRUE, default_min_count)

\* std::size_t min_count = 2;
nesting_min_count == 2

\* CheckNesting with the slip of leaving out min_count
CheckNesting_default(state, sql_statement, w) ==
  CheckPattern(state, sql_statement, w, NestingPattern,
               "LOG_LEVEL_INFO", "PATTERN_TYPE_QUERY",
               "Nested sub queries", TRUE, default_min_count)

CheckNesting(state, sql_statement, w) ==
  CheckPattern(state, sql_statement, w, NestingPattern,
               "LOG_LEVEL_INFO", "PATTERN_TYPE_QUERY",
               "Nested sub queries", TRUE, nesting_min_count)

CheckOr(state, sql_statement, w) ==
  CheckPattern(state, sql_statement, w, OrPattern,
               "LOG_LEVEL_INFO", "PATTERN_TYPE_QUERY",
               "OR Usage", TRUE, default_min_count)

CheckUnion(state, sql_statement, w) ==
  CheckPattern(state, sql_statement, w, UnionPattern,
               "LOG_LEVEL_INFO", "PATTERN_TYPE_QUERY",
               "UNION Usage", TRUE, default_min_count)

CheckDistinctJoin(state, sql_statement, w) ==
  CheckPattern(state, sql_statement, w, DistinctJoinPattern,
               "LOG_LEVEL_INFO", "PATTERN_TYPE_QUERY",
               "DISTINCT & JOIN Usage", TRUE, default_min_count)

(***************************************************************************)
(* APPLICATION                                                             *)
(***************************************************************************)
\* CheckReadablePasswords with the pattern_type of the group before it
CheckReadablePasswords_query(state, sql_statement, w) ==
  CheckPattern(state, sql_statement, w, ReadablePasswordsPattern,
               "LOG_LEVEL_INFO", "PATTERN_TYPE_QUERY",
               "Readable Passwords", TRUE, default_min_count)


CheckReadablePasswords(state, sql_statement, w) ==
  CheckPattern(state, sql_statement, w, ReadablePasswordsPattern,
               "LOG_LEVEL_INFO", "PATTERN_TYPE_APPLICATION",
               "Readable Passwords", TRUE, default_min_count)

(***************************************************************************)
(* The catalog: the rule functions in the order list.h declares them,      *)
(* which is the order in which a statement is checked against them.        *)
(***************************************************************************)
\* DeclarationOrder with the slip of two rules in the other order
DeclarationOrder_swapped ==
  << "CheckMultiValuedAttribute", "CheckRecursiveDependency",
     "CheckGenericPrimaryKey", "CheckPrimaryKeyExists",
     "CheckForeignKeyExists", "CheckVariableAttribute",
     "CheckMetadataTribbles",
     "CheckFloat", "CheckValuesInDefinition", "CheckExternalFiles",
     "CheckIndexCount", "CheckIndexAttributeOrder",
     "CheckSelectStar", "CheckNullUsage", "CheckNotNullUsage",
     "CheckConcatenation", "CheckGroupByUsage", "CheckOrderByRand",
     "CheckPatternMatching", "CheckSpaghettiQuery", "CheckJoinCount",
     "CheckDistinctCount", "CheckImplicitColumns", "CheckHaving",
     "CheckNesting", "CheckOr", "CheckUnion", "CheckDistinctJoin",
     "CheckReadablePasswords" >>

\* the rule functions in the order list.h declares them
DeclarationOrder ==
  << "CheckMultiValuedAttribute", "CheckRecursiveDependency",
     "CheckPrimaryKeyExists", "CheckGenericPrimaryKey",
     "CheckForeignKeyExists", "CheckVariableAttribute",
     "CheckMetadataTribbles",
     "CheckFloat", "CheckValuesInDefinition", "CheckExternalFiles",
     "CheckIndexCount", "CheckIndexAttributeOrder",
     "CheckSelectStar", "CheckNullUsage", "CheckNotNullUsage",
     "CheckConcatenation", "CheckGroupByUsage", "CheckOrderByRand",
     "CheckPatternMatching", "CheckSpaghettiQuery", "CheckJoinCount",
     "CheckDistinctCount", "CheckImplicitColumns", "CheckHaving",
     "CheckNesting", "CheckOr", "CheckUnion", "CheckDistinctJoin",
     "CheckReadablePasswords" >>

NumRules == Len(DeclarationOrder)

\* the call of one rule function
RunRule(name, state, sql_statement, w) ==
  CASE name = "CheckMultiValuedAttribute" -> CheckMultiValuedAttribute(state, sql_statement, w)
    [] name = "CheckRecursiveDependency" -> CheckRecursiveDependency(state, sql_statement, w)
    [] name = "CheckPrimaryKeyExists" -> CheckPrimaryKeyExists(state, sql_statement, w)
    [] name = "CheckGenericPrimaryKey" -> CheckGenericPrimaryKey(state, sql_statement, w)
    [] name = "CheckForeignKeyExists" -> CheckForeignKeyExists(state, sql_statement, w)
    [] name = "CheckVariableAttribute" -> CheckVariableAttribute(state, sql_statement, w)
    [] name = "CheckMetadataTribbles" -> CheckMetadataTribbles(state, sql_statement, w)
    [] name = "CheckFloat" -> CheckFloat(state, sql_statement, w)
    [] name = "CheckValuesInDefinition" -> CheckValuesInDefinition(state, sql_statement, w)
    [] name = "CheckExternalFiles" -> CheckExternalFiles(state, sql_statement, w)
    [] name = "CheckIndexCount" -> CheckIndexCount(state, sql_statement, w)
    [] name = "CheckIndexAttributeOrder" -> CheckIndexAttributeOrder(state, sql_statement, w)
    [] name = "CheckSelectStar" -> CheckSelectStar(state, sql_statement, w)
    [] name = "CheckNullUsage" -> CheckNullUsage(state, sql_statement, w)
    [] name = "CheckNotNullUsage" -> CheckNotNullUsage(state, sql_statement, w)
    [] name = "CheckConcatenation" -> CheckConcatenation(state, sql_statement, w)
    [] name = "CheckGroupByUsage" -> CheckGroupByUsage(state, sql_statement, w)
    [] name = "CheckOrderByRand" -> CheckOrderByRand(state, sql_statement, w)
    [] name = "CheckPatternMatching" -> CheckPatternMatching(state, sql_statement, w)
    [] name = "CheckSpaghettiQuery" -> CheckSpaghettiQuery(state, sql_statement, w)
    [] name = "CheckJoinCount" -> CheckJoinCount(state, sql_statement, w)
    [] name = "CheckDistinctCount" -> CheckDistinctCount(state, sql_statement, w)
    [] name = "CheckImplicitColumns" -> CheckImplicitColumns(state, sql_statement, w)
    [] name = "CheckHaving" -> CheckHaving(state, sql_statement, w)
    [] name = "CheckNesting" -> CheckNesting(state, sql_statement, w)
    [] name = "CheckOr" -> CheckOr(state, sql_statement, w)
    [] name = "CheckUnion" -> CheckUnion(state, sql_statement, w)
    [] name = "CheckDistinctJoin" -> CheckDistinctJoin(state, sql_statement, w)
    [] name = "CheckReadablePasswords" -> CheckReadablePasswords(state, sql_statement, w)

(***************************************************************************)
(* The statements of the model.                                            *)
(***************************************************************************)
\* the statements of a run are at most MaxStatements
MaxStatements == 2

\* a word of a statement is repeated at most MaxRepeat times
MaxRepeat == 6

\* text repeated n times
Repeat(text, n) ==
  [i \in 1..(n * Len(text)) |-> text[((i - 1) % Len(text)) + 1]]

\* how a statement begins: not a table definition, CREATE TABLE with the
\* table name t, ALTER TABLE, CREATE TABLE with a name that goes on in the
\* body, CREATE TABLE with "attribute" in the name, CREATE TABLE without a
\* name of its own, CREATE TABLE with a schema-qualified name
Heads ==
  { << >>,
    <<"c","r","e","a","t","e"," ","t","a","b","l","e"," ","t"," ">>,
    <<"a","l","t","e","r"," ","t","a","b","l","e"," ","t"," ">>,
    <<"c","r","e","a","t","e"," ","t","a","b","l","e"," ","t","(">>,
    <<"c","r","e","a","t","e"," ","t","a","b","l","e"," ","t","_","a","t","t","r","i","b","u","t","e"," ">>,
    <<"c","r","e","a","t","e"," ","t","a","b","l","e"," ">>,
    <<"c","r","e","a","t","e"," ","t","a","b","l","e"," ","s",".","t"," ">> }

\* the words counted by the rules with a min_count
CountedWords == { <<"j","o","i","n"," ">>, <<"s","e","l","e","c","t"," ">>, <<"d","i","s","t","i","n","c","t"," ">>, <<"i","n","d","e","x"," ">> }

\* the texts that the patterns of the rules match or nearly match
Fragments ==
  { <<"i","d"," ","v","a","r","c","h","a","r"," ">>, <<"p","i","d"," ","r","e","g","e","x","p"," ">>, <<"(","i","d"," ","s","e","r","i","a","l",","," ">>, <<",","i","d"," ","i","n","t"," ">>,
    <<"c","o","l","2","2"," ","i","n","t"," ">>, <<"p","r","i","c","e"," ","f","l","o","a","t"," ">>, <<"0",".","0","0","0","1"," ">>, <<"e","n","u","m"," ">>, <<"i","n"," ","(","1",")"," ">>,
    <<"p","a","t","h"," ","v","a","r","c","h","a","r"," ">>, <<"u","n","l","i","n","k"," ","(">>, <<"c","r","e","a","t","e"," ","i","n","d","e","x"," ">>, <<"s","e","l","e","c","t"," ","*"," ">>,
    <<"s","e","l","e","c","t"," "," ","*"," ","f","r","o","m"," ","u"," ">>, <<"n","u","l","l"," ">>, <<"n","o","t"," ","n","u","l","l"," ">>, <<"|","|"," ">>, <<"g","r","o","u","p"," ","b","y"," ","a"," ">>,
    <<"o","r","d","e","r"," ","b","y"," ","r","a","n","d","(",")"," ">>, <<"l","i","k","e"," ">>, <<"s","i","m","i","l","a","r"," ","t","o"," ">>,
    <<"i","n","s","e","r","t"," ","i","n","t","o"," ","u"," ","v","a","l","u","e","s"," ">>, <<"i","n","s","e","r","t"," ","i","n","t","o"," ","u"," ","(","a",")"," ","v","a","l","u","e","s"," ">>, <<"h","a","v","i","n","g"," ">>,
    <<"o","r"," ">>, <<"u","n","i","o","n"," ">>, <<"d","i","s","t","i","n","c","t"," ","a"," ","j","o","i","n"," ","b"," ">>, <<"p","a","s","s","w","o","r","d"," ","v","a","r","c","h","a","r"," ">>,
    <<"p","w","d"," ","="," ">>, <<"r","e","f","e","r","e","n","c","e","s"," ","t"," ">>, <<"r","e","f","e","r","e","n","c","e","s"," "," ","t","_","a","t","t","r","i","b","u","t","e"," ">>,
    <<"a","t","t","r","i","b","u","t","e"," ">>, <<")"," ">>, <<"a",")"," ">>, <<"x"," ">>,
    <<"p","a","t","t","e","r","n"," ","m","u","s","t"," ","n","o","t"," ","e","x","i","s","t"," ">>, <<"r","e","f","e","r","e","n","c","e","s"," ","s","x","t"," ">>, <<"x","c","r","e","a","t","e"," ","t","a","b","l","e","y"," ">> }

Bodies ==
  {<< >>} \cup Fragments
    \cup {Repeat(word, n) : word \in CountedWords, n \in 1..MaxRepeat}

\* how a statement ends
Tails ==
  { << >>, <<"p","r","i","m","a","r","y"," ","k","e","y"," ">>, <<"f","o","r","e","i","g","n"," ","k","e","y"," ","(","p",")"," ","r","e","f","e","r","e","n","c","e","s"," ","t"," ">>, <<"i","s"," ","n","u","l","l">> }

\* statements at the length where a query becomes a spaghetti query
LongStatements ==
  { Repeat(<<"x">>, spaghetti_query_char_count - 1),
    Repeat(<<"x">>, spaghetti_query_char_count),
    <<"s","e","l","e","c","t"," ","*"," ">> \o Repeat(<<"x">>, spaghetti_query_char_count - 10),
    <<"s","e","l","e","c","t"," ","*"," ">> \o Repeat(<<"x">>, spaghetti_query_char_count - 9) }

\* the statements of the runs of several statements
RunStatements ==
  { <<"s","e","l","e","c","t"," ","*"," ","f","r","o","m"," ","a","c","c","o","u","n","t","s">>,
    <<"s","e","l","e","c","t"," ","f","i","r","s","t","_","n","a","m","e"," ","f","r","o","m"," ","a","c","c","o","u","n","t","s"," ","w","h","e","r","e"," ","i","d"," ","="," ","1">>,
    <<"c","r","e","a","t","e"," ","t","a","b","l","e"," ","t"," ","(","i","d"," ","s","e","r","i","a","l",","," ","n","a","m","e"," ","v","a","r","c","h","a","r","(","5","0",")",")">>,
    <<"s","e","l","e","c","t"," ","i","d"," ","f","r","o","m"," ","t">>,
    <<"c","r","e","a","t","e"," ","t","a","b","l","e"," ","t","(","i","d"," ","i","n","t",")">>,
    <<"s","e","l","e","c","t"," ","a"," ","f","r","o","m"," ","b"," ","j","o","i","n"," ","c"," ","j","o","i","n"," ","d"," ","j","o","i","n"," ","e"," ","j","o","i","n"," ","f"," ","j","o","i","n"," ","g">>,
    <<"c","r","e","a","t","e"," ","t","a","b","l","e"," ","t","_","a","t","t","r","i","b","u","t","e"," ","(","c","o","l","1"," ","i","n","t"," ","n","o","t"," ","n","u","l","l",","," ","p"," ","i","n","t"," ","r","e","f","e","r","e","n","c","e","s"," ","t","_","a","t","t","r","i","b","u","t","e",")">>,
    <<"s","e","l","e","c","t"," ","d","i","s","t","i","n","c","t"," ","a"," ","f","r","o","m"," ","b"," ","u","n","i","o","n"," ","s","e","l","e","c","t"," ","a"," ","f","r","o","m"," ","c"," ","w","h","e","r","e"," ","a"," ","i","s"," ","n","u","l","l"," ","o","r"," ","a"," ","l","i","k","e"," ","b">> }

\* the example of a table definition of the README and the spec, as it is and
\* with more spaces
ExampleStatements ==
  { <<"c","r","e","a","t","e"," ","t","a","b","l","e"," ","a","c","c","o","u","n","t","s"," ","(","i","d"," ","i","n","t",")">>,
    <<"c","r","e","a","t","e"," ","t","a","b","l","e"," "," "," ","a","c","c","o","u","n","t","s"," "," ","(","i","d"," ","i","n","t",")"," "," ">> }

\* CREATE TABLE followed by nothing, by spaces, and by "references" only
ClauseStatements ==
  { <<"c","r","e","a","t","e"," ","t","a","b","l","e">>, <<"c","r","e","a","t","e"," ","t","a","b","l","e"," "," "," ">>, <<"x"," ","c","r","e","a","t","e"," ","t","a","b","l","e"," "," ">>,
    <<"r","e","f","e","r","e","n","c","e","s"," ","c","r","e","a","t","e"," ","t","a","b","l","e"," ">> }

\* the statements each rule is evaluated on
EvalStatements ==
  {head \o body \o tail : head \in Heads, body \in Bodies, tail \in Tails}
    \cup LongStatements \cup RunStatements \cup ExampleStatements
    \cup ClauseStatements

(***************************************************************************)
(* The state: the configuration, the statement being checked, the number   *)
(* of statements read, the rule to call next (0 before the first           *)
(* statement, NumRules + 1 after the last rule), print_statement, the      *)
(* report (the findings in the order they are emitted), the counters of    *)
(* the summary, the statements echoed, and whether the run was ended by a  *)
(* std::regex_error.                                                       *)
(***************************************************************************)
VARIABLES state, sql_statement, statement_no, pc, print_statement, report,
          risk_count, type_count, total_count, echoed, aborted

vars == <<state, sql_statement, statement_no, pc, print_statement, report,
          risk_count, type_count, total_count, echoed, aborted>>

Configurations(verbose_modes, color_modes) ==
  [risk_level : 1..3, verbose_mode : verbose_modes, color_mode : color_modes]

InitWith(configurations) ==
  /\ state \in configurations
  /\ sql_statement = << >>
  /\ statement_no = 0
  /\ pc = 0
  /\ print_statement = TRUE
  /\ report = << >>
  /\ risk_count = [level \in LogLevels |-> 0]
  /\ type_count = [type \in PatternTypes |-> 0]
  /\ total_count = 0
  /\ echoed = << >>
  /\ aborted = FALSE

\* the mutable data as the record the rule functions work on
World ==
  [statement_no |-> statement_no, print_statement |-> print_statement,
   report |-> report, risk_count |-> risk_count, type_count |-> type_count,
   total_count |-> total_count, echoed |-> echoed, regex_error |-> FALSE]

\* Check with the slip of putting the risk level back to its default for
\* every statement
Check_default_risk(statements, limit) ==
  /\ pc \in {0, NumRules + 1}
  /\ ~aborted
  /\ statement_no < limit
  /\ \E statement \in statements : sql_statement' = statement
  /\ statement_no' = statement_no + 1
  /\ print_statement' = TRUE
  /\ pc' = 1
  /\ state' = [state EXCEPT !.risk_level = 1]
  /\ UNCHANGED <<report, risk_count, type_count, total_count, echoed, aborted>>

\* Check: the next statement of the input is read and its check begins
Check(statements, limit) ==
  /\ pc \in {0, NumRules + 1}
  /\ ~aborted
  /\ statement_no < limit
  /\ \E statement \in statements : sql_statement' = statement
  /\ statement_no' = statement_no + 1
  /\ print_statement' = TRUE
  /\ pc' = 1
  /\ UNCHANGED <<state, report, risk_count, type_count, total_count, echoed,
                 aborted>>

\* CheckStatement: the next rule function is called on the statement; a
\* std::regex_error it throws is caught nowhere and ends the run
CheckStatement ==
  /\ pc \in 1..NumRules
  /\ ~aborted
  /\ \E w \in {RunRule(DeclarationOrder[pc], state, sql_statement, World)} :
        /\ aborted' = w.regex_error
        /\ pc' = IF w.regex_error THEN pc ELSE pc + 1
        /\ print_statement' = w.print_statement
        /\ report' = w.report
        /\ risk_count' = w.risk_count
        /\ type_count' = w.type_count
        /\ total_count' = w.total_count
        /\ echoed' = w.echoed
  /\ UNCHANGED <<state, sql_statement, statement_no>>

Init == InitWith(Configurations(BOOLEAN, BOOLEAN))

Next == Check(RunStatements, MaxStatements) \/ CheckStatement

\* runs of up to MaxStatements statements
Spec == Init /\ [][Next]_vars

InitEval == InitWith(Configurations({FALSE}, {FALSE}))

NextEval == Check(EvalStatements, 1) \/ CheckStatement

\* one statement of EvalStatements checked against every rule
SpecEval == InitEval /\ [][NextEval]_vars

(***************************************************************************)
(* The catalog as the README lists it: the titles of the anti-patterns in  *)
(* order, and for each rule its base risk, its min_occurrences, its        *)
(* applicability guard and its pattern.                                    *)
(***************************************************************************)
Catalog ==
  << "Multi-Valued Attribute", "Recursive Dependency",
     "Primary Key Does Not Exist", "Generic Primary Key",
     "Foreign Key Does Not Exist", "Entity-Attribute-Value Pattern",
     "Metadata Tribbles",
     "Imprecise Data Type", "Values In Definition",
     "Files Are Not SQL Data Types", "Too Many Indexes",
     "Index Attribute Order",
     "SELECT *", "NULL Usage", "NOT NULL Usage", "String Concatenation",
     "GROUP BY Usage", "ORDER BY RAND Usage", "Pattern Matching Usage",
     "Spaghetti Query Alert", "Reduce Number of JOINs",
     "Eliminate Unnecessary DISTINCT Conditions", "Implicit Column Usage",
     "HAVING Clause Usage", "Nested sub queries", "OR Usage", "UNION Usage",
     "DISTINCT & JOIN Usage",
     "Readable Passwords" >>

\* the group a rule is declared in: list.h declares the rule functions under
\* the headings LOGICAL DATABASE DESIGN, PHYSICAL DATABASE DESIGN, QUERY and
\* APPLICATION, as the README lists the anti-patterns
DeclaredGroup(title) ==
  CASE title \in {"Multi-Valued Attribute", "Recursive Dependency",
                  "Primary Key Does Not Exist", "Generic Primary Key",
                  "Foreign Key Does Not Exist", "Entity-Attribute-Value Pattern",
                  "Metadata Tribbles"} ->
         "PATTERN_TYPE_LOGICAL_DATABASE_DESIGN"
    [] title \in {"Imprecise Data Type", "Values In Definition",
                  "Files Are Not SQL Data Types", "Too Many Indexes",
                  "Index Attribute Order"} ->
         "PATTERN_TYPE_PHYSICAL_DATABASE_DESIGN"
    [] title = "Readable Passwords" -> "PATTERN_TYPE_APPLICATION"
    [] OTHER -> "PATTERN_TYPE_QUERY"

\* the place of a title in the catalog
CatalogIndex(title) == CHOOSE k \in 1..Len(Catalog) : Catalog[k] = title

ErrorRules ==
  {"Multi-Valued Attribute", "Recursive Dependency", "Generic Primary Key",
   "Metadata Tribbles", "Imprecise Data Type", "SELECT *"}

WarnRules ==
  {"Primary Key Does Not Exist", "Foreign Key Does Not Exist",
   "Entity-Attribute-Value Pattern", "Values In Definition",
   "Files Are Not SQL Data Types", "Too Many Indexes", "NOT NULL Usage",
   "ORDER BY RAND Usage", "Pattern Matching Usage"}

BaseRisk(title) ==
  IF title \in ErrorRules THEN "LOG_LEVEL_ERROR"
  ELSE IF title \in WarnRules THEN "LOG_LEVEL_WARN"
  ELSE "LOG_LEVEL_INFO"

\* the rules that report a phrase that is missing
AbsenceRules == {"Primary Key Does Not Exist", "Foreign Key Does Not Exist"}

MinOccurrences(title) ==
  CASE title = "Too Many Indexes" -> 3
    [] title = "Reduce Number of JOINs" -> 5
    [] title = "Eliminate Unnecessary DISTINCT Conditions" -> 5
    [] title = "Nested sub queries" -> 2
    [] OTHER -> 1

Guard(title, s) ==
  CASE title \in {"Primary Key Does Not Exist", "Foreign Key Does Not Exist",
                  "Too Many Indexes", "NOT NULL Usage"} ->
         Find(<<"c","r","e","a","t","e"," ","t","a","b","l","e">>, s) # 0
    [] title \in {"Generic Primary Key", "Metadata Tribbles",
                  "Values In Definition"} ->
         Find(<<"c","r","e","a","t","e"," ","t","a","b","l","e">>, s) # 0 \/ Find(<<"a","l","t","e","r"," ","t","a","b","l","e">>, s) # 0
    [] title = "Recursive Dependency" -> GetTableName(s) # << >>
    [] title = "Entity-Attribute-Value Pattern" ->
         Find(<<"a","t","t","r","i","b","u","t","e">>, GetTableName(s)) # 0
    [] OTHER -> TRUE

\* whether the rule has a pattern for s: the pattern of Recursive Dependency
\* is built from the table name of s and may be no regular expression
HasPattern(title, s) ==
  title = "Recursive Dependency" => ParensBalance(GetTableName(s))

PatternOf(title, s) ==
  CASE title = "Multi-Valued Attribute" -> MultiValuedAttributePattern
    [] title = "Recursive Dependency" ->
         RecursiveDependencyPattern(GetTableName(s))
    [] title = "Primary Key Does Not Exist" -> PrimaryKeyPattern
    [] title = "Generic Primary Key" -> GenericPrimaryKeyPattern
    [] title = "Foreign Key Does Not Exist" -> ForeignKeyPattern
    [] title = "Entity-Attribute-Value Pattern" -> VariableAttributePattern
    [] title = "Metadata Tribbles" -> MetadataTribblesPattern
    [] title = "Imprecise Data Type" -> FloatPattern
    [] title = "Values In Definition" -> ValuesInDefinitionPattern
    [] title = "Files Are Not SQL Data Types" -> ExternalFilesPattern
    [] title = "Too Many Indexes" -> IndexCountPattern
    [] title = "Index Attribute Order" -> IndexAttributeOrderPattern
    [] title = "SELECT *" -> SelectStarPattern
    [] title = "NULL Usage" -> NullUsagePattern
    [] title = "NOT NULL Usage" -> NotNullUsagePattern
    [] title = "String Concatenation" -> ConcatenationPattern
    [] title = "GROUP BY Usage" -> GroupByUsagePattern
    [] title = "ORDER BY RAND Usage" -> OrderByRandPattern
    [] title = "Pattern Matching Usage" -> PatternMatchingPattern
    [] title = "Spaghetti Query Alert" ->
         IF Len(s) >= 500 THEN true_pattern ELSE false_pattern
    [] title = "Reduce Number of JOINs" -> JoinCountPattern
    [] title = "Eliminate Unnecessary DISTINCT Conditions" -> DistinctCountPattern
    [] title = "Implicit Column Usage" -> ImplicitColumnsPattern
    [] title = "HAVING Clause Usage" -> HavingPattern
    [] title = "Nested sub queries" -> NestingPattern
    [] title = "OR Usage" -> OrPattern
    [] title = "UNION Usage" -> UnionPattern
    [] title = "DISTINCT & JOIN Usage" -> DistinctJoinPattern
    [] title = "Readable Passwords" -> ReadablePasswordsPattern

\* the pattern of the rule matches s at least once
PatternMatches(title, s) ==
  /\ HasPattern(title, s)
  /\ \E p \in 1..(Len(s) + 1) : MatchesAt(PatternOf(title, s), s, p)

\* the number of places of s where text occurs
Occurrences(text, s) == Cardinality({i \in 1..Len(s) : OccursAt(text, s, i)})

\* the report has a finding of the rule for the statement being checked
Reported(title) ==
  \E i \in 1..Len(report) :
    report[i].statement = statement_no /\ report[i].title = title

\* rule k of the catalog is the rule that has just been evaluated on the
\* statement
Evaluated(k) == ~aborted /\ pc = k + 1

\* the rule just evaluated, when there is one
LastRule == Catalog[pc - 1]

\* the risk filter admits the rule at the configured tier
Admitted(title) == RiskRank(BaseRisk(title)) >= state.risk_level

JoinCountFiresFromFive ==
  (Evaluated(CatalogIndex("Reduce Number of JOINs")) /\ state.risk_level = 1)
    => (Reported("Reduce Number of JOINs")
          <=> Occurrences(<<"j","o","i","n">>, sql_statement) >= 5)

\* C2 witness: the rule has fired on a statement with exactly 5 "join"
JoinCountFiresFromFiveWitness ==
  /\ Evaluated(CatalogIndex("Reduce Number of JOINs"))
  /\ Occurrences(<<"j","o","i","n">>, sql_statement) = 5
  /\ Reported("Reduce Number of JOINs")

\* C3: once evaluated on a statement and admitted by the risk filter, "Too
\* Many Indexes" has fired if and only if the statement has "create table"
\* and 3 or more "index"; "Nested sub queries" if and only if it has 2 or
\* more "select"; "Eliminate Unnecessary DISTINCT Conditions" if and only if
\* it has 5 or more "distinct".
ThresholdRulesFireFromThreshold ==
  /\ (Evaluated(CatalogIndex("Too Many Indexes")) /\ state.risk_level <= 2)
       => (Reported("Too Many Indexes")
             <=> (Occurrences(<<"c","r","e","a","t","e"," ","t","a","b","l","e">>, sql_statement) >= 1
                    /\ Occurrences(<<"i","n","d","e","x">>, sql_statement) >= 3))
  /\ (Evaluated(CatalogIndex("Nested sub queries")) /\ state.risk_level = 1)
       => (Reported("Nested sub queries")
             <=> Occurrences(<<"s","e","l","e","c","t">>, sql_statement) >= 2)
  /\ (Evaluated(CatalogIndex("Eliminate Unnecessary DISTINCT Conditions"))
        /\ state.risk_level = 1)
       => (Reported("Eliminate Unnecessary DISTINCT Conditions")
             <=> Occurrences(<<"d","i","s","t","i","n","c","t">>, sql_statement) >= 5)

\* C3 witness: "Too Many Indexes" has just fired on a statement with exactly
\* 3 "index"
ThresholdRulesFireFromThresholdWitness ==
  /\ Evaluated(CatalogIndex("Too Many Indexes"))
  /\ Reported("Too Many Indexes")
  /\ Occurrences(<<"i","n","d","e","x">>, sql_statement) = 3

AdmittedAt(tier) ==
  CASE tier = 1 -> {"LOG_LEVEL_INFO", "LOG_LEVEL_WARN", "LOG_LEVEL_ERROR"}
    [] tier = 2 -> {"LOG_LEVEL_WARN", "LOG_LEVEL_ERROR"}
    [] tier = 3 -> {"LOG_LEVEL_ERROR"}

\* the rule fires on s, whether the risk filter admits it or not
Detected(title, s) ==
  /\ Guard(title, s)
  /\ HasPattern(title, s)
  /\ IF title \in AbsenceRules
       THEN ~PatternMatches(title, s)
       ELSE CountMatches(PatternOf(title, s), s) >= MinOccurrences(title)

\* C5: a rule that fires on the statement yields a finding if and only if
\* its base risk is one the configured tier admits (tier 1: Info, Warning,
\* Error; tier 2: Warning, Error; tier 3: Error), and no finding of the
\* report has a risk the tier does not admit.
RiskFilterAdmitsByTier ==
  /\ (~aborted /\ pc \in 2..(NumRules + 1) /\ Detected(LastRule, sql_statement))
       => (Reported(LastRule)
             <=> BaseRisk(LastRule) \in AdmittedAt(state.risk_level))
  /\ \A i \in 1..Len(report) : report[i].risk \in AdmittedAt(state.risk_level)

\* C5 witness: at tier 2 an Info rule has just fired and is suppressed,
\* after a Warning rule has fired and was admitted
RiskFilterAdmitsByTierWitness ==
  /\ ~aborted /\ pc \in 2..(NumRules + 1)
  /\ state.risk_level = 2
  /\ BaseRisk(LastRule) = "LOG_LEVEL_INFO"
  /\ Detected(LastRule, sql_statement)
  /\ ~Reported(LastRule)
  /\ \E i \in 1..Len(report) : report[i].risk = "LOG_LEVEL_WARN"

\* the rule just evaluated yields a finding when run on the statement at the
\* given tier
YieldsFindingAt(tier) ==
  Len(RunRule(DeclarationOrder[pc - 1], [state EXCEPT !.risk_level = tier],
              sql_statement, [World EXCEPT !.report = << >>]).report) = 1

\* C6: for a fixed statement, a finding admitted at a tier is admitted at
\* every lower tier: the findings at tier 1 include those at tier 2, which
\* include those at tier 3.
RiskFilterMonotone ==
  (~aborted /\ pc \in 2..(NumRules + 1) /\ Reported(LastRule))
    => \A tier \in 1..state.risk_level : YieldsFindingAt(tier)

\* C6 witness: a rule has just yielded a finding at tier 3
RiskFilterMonotoneWitness ==
  /\ ~aborted /\ pc \in 2..(NumRules + 1)
  /\ state.risk_level = 3
  /\ Reported(LastRule)

(***************************************************************************)
(* The counters of the summary.                                            *)
(***************************************************************************)
\* C7: each counter of a risk level and each counter of a pattern type is
\* the number of findings of that level or type in the report, and a rule
\* has at most one finding for a statement, however many times its pattern
\* matched.
CountersCountFindings ==
  /\ \A level \in LogLevels :
       risk_count[level]
         = Cardinality({i \in 1..Len(report) : report[i].risk = level})
  /\ \A type \in PatternTypes :
       type_count[type]
         = Cardinality({i \in 1..Len(report) : report[i].type = type})
  /\ \A i, j \in 1..Len(report) :
       (report[i].statement = report[j].statement
          /\ report[i].title = report[j].title) => i = j

\* C7 witness: the only Info finding is one of "Reduce Number of JOINs",
\* whose pattern matched 5 times, and it is counted once
CountersCountFindingsWitness ==
  /\ risk_count["LOG_LEVEL_INFO"] = 1
  /\ type_count["PATTERN_TYPE_QUERY"] = 1
  /\ \E i \in 1..Len(report) :
       /\ report[i].title = "Reduce Number of JOINs"
       /\ report[i].match_count = 5

\* C8: the total of the summary is the sum of the counters of the high,
\* medium and low risk levels.
TotalIsSumOfRiskCounters ==
  total_count = risk_count["LOG_LEVEL_ERROR"] + risk_count["LOG_LEVEL_WARN"]
                  + risk_count["LOG_LEVEL_INFO"]

\* C8 witness: findings of all three risk levels have been counted, two of
\* them for one statement
TotalIsSumOfRiskCountersWitness ==
  /\ \A level \in LogLevels : risk_count[level] >= 1
  /\ \E i, j \in 1..Len(report) :
       i # j /\ report[i].statement = report[j].statement

(***************************************************************************)
(* The findings.                                                           *)
(***************************************************************************)
\* C9: the risk of a finding is the base risk of its rule, whatever the
\* match count and the statement.
FindingRiskIsBaseRisk ==
  \A i \in 1..Len(report) : report[i].risk = BaseRisk(report[i].title)

\* C9 witness: the report has a finding of "Reduce Number of JOINs" with
\* its threshold reached and a finding of an Error rule
FindingRiskIsBaseRiskWitness ==
  \E i, j \in 1..Len(report) :
    /\ report[i].title = "Reduce Number of JOINs"
    /\ report[i].match_count >= 5
    /\ report[i].risk = "LOG_LEVEL_INFO"
    /\ report[j].risk = "LOG_LEVEL_ERROR"

\* C10: the findings of a statement are in the order of the catalog.
FindingsInCatalogOrder ==
  \A i, j \in 1..Len(report) :
    (i < j /\ report[i].statement = report[j].statement)
      => CatalogIndex(report[i].title) < CatalogIndex(report[j].title)

\* C10 witness: a statement has findings of a Logical Design rule and of a
\* Query rule, and another statement has findings too
FindingsInCatalogOrderWitness ==
  \E i, j, k \in 1..Len(report) :
    /\ report[i].statement = report[j].statement
    /\ report[i].type = "PATTERN_TYPE_LOGICAL_DATABASE_DESIGN"
    /\ report[j].type = "PATTERN_TYPE_QUERY"
    /\ report[k].statement # report[i].statement

(***************************************************************************)
(* The report over a run.                                                  *)
(***************************************************************************)
\* C11: a step leaves the findings of the report as they are and in place,
\* adding new ones at the end only, and the findings of an earlier statement
\* come before those of a later one.
ReportGrowsInInputOrder ==
  [][/\ Len(report') >= Len(report)
     /\ SubSeq(report', 1, Len(report)) = report
     /\ \A i, j \in 1..Len(report') :
          i < j => report'[i].statement <= report'[j].statement]_vars

\* C11 witness: the report has findings of the first and of the second
\* statement
ReportGrowsInInputOrderWitness ==
  /\ statement_no = 2
  /\ \E i, j \in 1..Len(report) :
       report[i].statement = 1 /\ report[j].statement = 2

\* the statement being checked, checked on its own: every rule function
\* called in order, up to one that throws, in a run that has reported
\* nothing yet
CheckedAlone ==
  LET fresh == [World EXCEPT !.print_statement = TRUE, !.report = << >>,
                             !.risk_count = [level \in LogLevels |-> 0],
                             !.type_count = [type \in PatternTypes |-> 0],
                             !.total_count = 0, !.echoed = << >>]
      after[k \in 0..NumRules] ==
        IF k = 0 THEN fresh
        ELSE CHOOSE r \in { IF w.regex_error THEN w
                            ELSE RunRule(DeclarationOrder[k], state,
                                         sql_statement, w) :
                            w \in {after[k - 1]} } : TRUE
  IN after[NumRules]

\* the findings of the report that are of the statement being checked
FindingsOfStatement ==
  LET IsOfStatement(finding) == finding.statement = statement_no
  IN SelectSeq(report, IsOfStatement)

\* C12: once a statement is checked, whatever was checked before it in the
\* run, its findings and what it added to the counters are those of the
\* statement checked on its own; so checking it twice yields the same
\* findings and the same counts.
StatementCheckedAsOnItsOwn ==
  (statement_no >= 1 /\ (pc = NumRules + 1 \/ aborted))
    => \E alone \in {CheckedAlone} :
         /\ FindingsOfStatement = alone.report
         /\ total_count = (Len(report) - Len(alone.report)) + alone.total_count
         /\ \A level \in LogLevels :
              risk_count[level]
                = Cardinality({i \in 1..Len(report) :
                                 /\ report[i].statement < statement_no
                                 /\ report[i].risk = level})
                    + alone.risk_count[level]
         /\ \A type \in PatternTypes :
              type_count[type]
                = Cardinality({i \in 1..Len(report) :
                                 /\ report[i].statement < statement_no
                                 /\ report[i].type = type})
                    + alone.type_count[type]

\* C12 witness: two statements are checked, and the second has the findings
\* of the first, two or more
StatementCheckedAsOnItsOwnWitness ==
  /\ statement_no = 2 /\ pc = NumRules + 1
  /\ Len(FindingsOfStatement) >= 2
  /\ Len(report) = 2 * Len(FindingsOfStatement)
  /\ \A i \in 1..Len(FindingsOfStatement) :
       report[i] = [FindingsOfStatement[i] EXCEPT !.statement = 1]


(***************************************************************************)
(* The facts derived from a statement.                                     *)
(***************************************************************************)
Least(set) == CHOOSE i \in set : \A j \in set : i <= j

\* the first token of s, delimited by spaces, after the first occurrence of
\* "create table"; << >> when there is no occurrence or no token
FirstTokenAfterCreateTable(s) ==
  LET clauses == {i \in 1..Len(s) : OccursAt(create_table_template, s, i)}
  IN IF clauses = {} THEN << >>
     ELSE LET from == Least(clauses) + Len(create_table_template)
              letters == {i \in from..Len(s) : s[i] # " "}
          IN IF letters = {} THEN << >>
             ELSE LET first == Least(letters)
                      spaces == {i \in first..Len(s) : s[i] = " "}
                      last == IF spaces = {} THEN Len(s) ELSE Least(spaces) - 1
                  IN SubSeq(s, first, last)

\* C13: the table name of a statement is the first token, delimited by
\* spaces, after the first "create table" of the statement, and is empty for
\* a statement without "create table"; "create table accounts (id int)" has
\* the table name "accounts" and "select * from accounts" has none.
TableNameIsFirstTokenAfterCreateTable ==
  statement_no >= 1 =>
    /\ GetTableName(sql_statement) = FirstTokenAfterCreateTable(sql_statement)
    /\ Occurrences(create_table_template, sql_statement) = 0
         => GetTableName(sql_statement) = << >>
    /\ sql_statement = <<"c","r","e","a","t","e"," ","t","a","b","l","e"," ","a","c","c","o","u","n","t","s"," ","(","i","d"," ","i","n","t",")">>
         => GetTableName(sql_statement) = <<"a","c","c","o","u","n","t","s">>
    /\ sql_statement = <<"s","e","l","e","c","t"," ","*"," ","f","r","o","m"," ","a","c","c","o","u","n","t","s">>
         => GetTableName(sql_statement) = << >>

\* C13 witness: Recursive Dependency has taken the table name "accounts"
\* from a statement with several spaces around it
TableNameIsFirstTokenAfterCreateTableWitness ==
  /\ sql_statement = <<"c","r","e","a","t","e"," ","t","a","b","l","e"," "," "," ","a","c","c","o","u","n","t","s"," "," ","(","i","d"," ","i","n","t",")"," "," ">>
  /\ Evaluated(CatalogIndex("Recursive Dependency"))
  /\ GetTableName(sql_statement) = <<"a","c","c","o","u","n","t","s">>

\* C14: a statement is a DDL statement exactly when "create table" or
\* "alter table" occurs in it at some position, and a CREATE statement
\* exactly when "create table" does; the position and the characters around
\* the occurrence do not matter.
DDLIffContainsCreateOrAlterTable ==
  statement_no >= 1 =>
    /\ IsDDLStatement(sql_statement)
         <=> \/ Occurrences(create_table_template, sql_statement) > 0
             \/ Occurrences(alter_table_template, sql_statement) > 0
    /\ IsCreateStatement(sql_statement)
         <=> Occurrences(create_table_template, sql_statement) > 0

\* C14 witness: Primary Key Does Not Exist has been evaluated on a statement
\* that has "create table" inside a word and not at its start
DDLIffContainsCreateOrAlterTableWitness ==
  /\ Evaluated(CatalogIndex("Primary Key Does Not Exist"))
  /\ OccursAt(<<"x","c","r","e","a","t","e"," ","t","a","b","l","e","y">>, sql_statement, 1)
  /\ IsDDLStatement(sql_statement)
  /\ IsCreateStatement(sql_statement)

(***************************************************************************)
(* The guards of the rules.                                                *)
(***************************************************************************)
\* C15: Generic Primary Key is reported for a statement with "create table"
\* or "alter table" that its pattern matches, as for
\* "create table t (id serial, name varchar(50))", and is not reported for a
\* statement with neither, as for "select id from t", whether or not the
\* pattern matches.
GenericPrimaryKeyOnDDLOnly ==
  Evaluated(CatalogIndex("Generic Primary Key")) =>
    /\ ( /\ \/ Occurrences(create_table_template, sql_statement) > 0
             \/ Occurrences(alter_table_template, sql_statement) > 0
          /\ PatternMatches("Generic Primary Key", sql_statement) )
         => Reported("Generic Primary Key")
    /\ ( /\ Occurrences(create_table_template, sql_statement) = 0
          /\ Occurrences(alter_table_template, sql_statement) = 0 )
         => ~Reported("Generic Primary Key")
    /\ sql_statement = <<"c","r","e","a","t","e"," ","t","a","b","l","e"," ","t"," ","(","i","d"," ","s","e","r","i","a","l",","," ","n","a","m","e"," ","v","a","r","c","h","a","r","(","5","0",")",")">>
         => Reported("Generic Primary Key")
    /\ sql_statement = <<"s","e","l","e","c","t"," ","i","d"," ","f","r","o","m"," ","t">>
         => ~Reported("Generic Primary Key")

\* C15 witness: the rule has been evaluated on "select id from t", which its
\* pattern matches, and has reported nothing
GenericPrimaryKeyOnDDLOnlyWitness ==
  /\ Evaluated(CatalogIndex("Generic Primary Key"))
  /\ sql_statement = <<"s","e","l","e","c","t"," ","i","d"," ","f","r","o","m"," ","t">>
  /\ PatternMatches("Generic Primary Key", sql_statement)
  /\ report = << >>

\* C16: Spaghetti Query Alert, once evaluated on a statement at tier 1, has
\* fired if and only if the statement has 500 characters or more, whatever
\* the characters are.
SpaghettiQueryFiresIffLong ==
  (Evaluated(CatalogIndex("Spaghetti Query Alert")) /\ state.risk_level = 1)
    => (Reported("Spaghetti Query Alert")
          <=> Len(sql_statement) >= spaghetti_query_char_count)

\* "references", white space and the text itself, character by character
ReferenceTo(table_name) ==
  << <<Lit(<<"r","e","f","e","r","e","n","c","e","s">>), Plus(SpaceClass), Lit(table_name)>> >>

\* C17: Recursive Dependency, once evaluated on a statement, has fired if and
\* only if the statement has a table name and has "references", white space
\* and that table name in it; it has not fired on a statement without a
\* table name.
RecursiveDependencyMatchesOwnTableName ==
  Evaluated(CatalogIndex("Recursive Dependency")) =>
    ( Reported("Recursive Dependency")
        <=> /\ GetTableName(sql_statement) # << >>
            /\ \E p \in 1..Len(sql_statement) :
                 MatchesAt(ReferenceTo(GetTableName(sql_statement)),
                           sql_statement, p) )

\* C18: Entity-Attribute-Value Pattern, once evaluated on a statement whose
\* table name is missing or has no "attribute" in it, has not fired, also
\* when "attribute" occurs in the statement.
VariableAttributeOnTableNameOnly ==
  ( /\ Evaluated(CatalogIndex("Entity-Attribute-Value Pattern"))
    /\ Occurrences(attribute_text, GetTableName(sql_statement)) = 0 )
    => ~Reported("Entity-Attribute-Value Pattern")

\* C18 witness: the rule has been evaluated at tier 1 on a statement that has
\* "attribute" after a table name without it, and has not fired
VariableAttributeOnTableNameOnlyWitness ==
  /\ Evaluated(CatalogIndex("Entity-Attribute-Value Pattern"))
  /\ state.risk_level = 1
  /\ GetTableName(sql_statement) = <<"t">>
  /\ Occurrences(attribute_text, sql_statement) > 0
  /\ ~Reported("Entity-Attribute-Value Pattern")

(***************************************************************************)
(* Whole statements.                                                       *)
(***************************************************************************)
\* C19: checked against every rule at tier 1, 2 or 3,
\* "select * from accounts" has exactly one finding, SELECT * at the error
\* level, and "select first_name from accounts where id = 1" has none.
SelectStarIsTheOnlyFinding ==
  (~aborted /\ pc = NumRules + 1) =>
    /\ sql_statement = <<"s","e","l","e","c","t"," ","*"," ","f","r","o","m"," ","a","c","c","o","u","n","t","s">>
         => /\ Len(FindingsOfStatement) = 1
            /\ FindingsOfStatement[1].title = "SELECT *"
            /\ FindingsOfStatement[1].risk = "LOG_LEVEL_ERROR"
    /\ sql_statement = <<"s","e","l","e","c","t"," ","f","i","r","s","t","_","n","a","m","e"," ","f","r","o","m"," ","a","c","c","o","u","n","t","s"," ","w","h","e","r","e"," ","i","d"," ","="," ","1">>
         => FindingsOfStatement = << >>

\* C19 witness: "select * from accounts" has been checked against every rule
\* at tier 3 and the report has its finding
SelectStarIsTheOnlyFindingWitness ==
  /\ ~aborted /\ pc = NumRules + 1
  /\ state.risk_level = 3
  /\ sql_statement = <<"s","e","l","e","c","t"," ","*"," ","f","r","o","m"," ","a","c","c","o","u","n","t","s">>
  /\ Len(report) = 1
  /\ report[1].title = "SELECT *"

\* C20: no rule function raises an error, whatever the statement it is
\* called on and whatever the table name of the statement: the check of a
\* statement is never cut short by an exception.
EveryRuleCompletes == ~aborted

(***************************************************************************)
(* Errors and output.                                                      *)
(***************************************************************************)
\* C21: a regular expression that is no regular expression is found before
\* the first statement is read: no std::regex_error is raised while a
\* statement is being checked.
RegexErrorBeforeFirstStatement == aborted => statement_no = 0

\* C22: without verbose_mode no statement is echoed; with it, a statement is
\* echoed at most once, and only a statement that has a finding in the
\* report.
EchoedOnceAndOnlyWithFinding ==
  /\ ~state.verbose_mode => echoed = << >>
  /\ \A i, j \in 1..Len(echoed) : i # j => echoed[i] # echoed[j]
  /\ \A i \in 1..Len(echoed) :
       \E k \in 1..Len(report) : report[k].statement = echoed[i]

\* C22 witness: in verbose mode the first statement, with several findings,
\* has been echoed once and the second, checked against every rule without a
\* finding, has not been echoed
EchoedOnceAndOnlyWithFindingWitness ==
  /\ state.verbose_mode
  /\ statement_no = 2 /\ pc = NumRules + 1
  /\ echoed = <<1>>
  /\ Len(report) >= 2
  /\ \A k \in 1..Len(report) : report[k].statement = 1

(***************************************************************************)
(* The catalog.                                                            *)
(***************************************************************************)
RulesOfGroup(type) == {k \in 1..Len(Catalog) : DeclaredGroup(Catalog[k]) = type}

\* C23: the catalog has 29 rules and as many rule functions, 7 declared in
\* the logical design group, 5 in the physical design group, 16 in the query
\* group and 1 in the application group, and every finding has the pattern
\* type of the group its rule is declared in.
FindingsHaveTheTypeOfTheirGroup ==
  /\ Len(Catalog) = 29 /\ NumRules = 29
  /\ Cardinality(RulesOfGroup("PATTERN_TYPE_LOGICAL_DATABASE_DESIGN")) = 7
  /\ Cardinality(RulesOfGroup("PATTERN_TYPE_PHYSICAL_DATABASE_DESIGN")) = 5
  /\ Cardinality(RulesOfGroup("PATTERN_TYPE_QUERY")) = 16
  /\ Cardinality(RulesOfGroup("PATTERN_TYPE_APPLICATION")) = 1
  /\ \A i \in 1..Len(report) :
       /\ report[i].title \in {Catalog[k] : k \in 1..Len(Catalog)}
       /\ report[i].type = DeclaredGroup(report[i].title)
  /\ (~aborted /\ pc \in 2..(NumRules + 1) /\ Reported(LastRule))
       => report[Len(report)].type = DeclaredGroup(Catalog[pc - 1])

\* C23 witness: a statement checked against every rule has findings of the
\* first and of the last rule group and of the query group
FindingsHaveTheTypeOfTheirGroupWitness ==
  /\ ~aborted /\ pc = NumRules + 1
  /\ \A type \in {"PATTERN_TYPE_LOGICAL_DATABASE_DESIGN", "PATTERN_TYPE_QUERY",
                   "PATTERN_TYPE_APPLICATION"} :
       \E i \in 1..Len(report) : report[i].type = type

(***************************************************************************)
(* Rules that do not apply.                                                *)
(***************************************************************************)
\* C24: the call of a rule whose guard fails on the statement (no
\* "create table", no "create table" or "alter table", no table name, no
\* "attribute" in the table name) changes nothing but the rule that comes
\* next: the report, the counters, the echoed statements and
\* print_statement are as before, and no error is raised.
InapplicableRuleHasNoEffect ==
  [][(pc \in 1..NumRules /\ ~Guard(Catalog[pc], sql_statement))
       => /\ UNCHANGED <<report, risk_count, type_count, total_count, echoed,
                         print_statement, aborted>>
          /\ pc' = pc + 1]_vars

\* C24 witness: Entity-Attribute-Value Pattern has been skipped on a
\* statement with a table name without "attribute", after a finding of an
\* earlier rule had cleared print_statement
InapplicableRuleHasNoEffectWitness ==
  /\ Evaluated(CatalogIndex("Entity-Attribute-Value Pattern"))
  /\ GetTableName(sql_statement) # << >>
  /\ ~Guard("Entity-Attribute-Value Pattern", sql_statement)
  /\ Occurrences(attribute_text, sql_statement) > 0
  /\ ~print_statement
  /\ report # << >>

(***************************************************************************)
(* The configuration.                                                      *)
(***************************************************************************)
\* C25: no step of a run changes the configuration: the risk level,
\* verbose_mode and color_mode are those the run started with.
ConfigurationNeverModified ==
  [][/\ state'.risk_level = state.risk_level
     /\ state'.verbose_mode = state.verbose_mode
     /\ state'.color_mode = state.color_mode]_vars

\* C25 witness: two statements have been checked against every rule, with
\* findings, at risk level 2 in verbose and color mode
ConfigurationNeverModifiedWitness ==
  /\ statement_no = 2 /\ pc = NumRules + 1
  /\ report # << >>
  /\ state.risk_level = 2 /\ state.verbose_mode /\ state.color_mode

OnlyErrorRulesAtTierThree ==
  state.risk_level = 3 =>
    \A i \in 1..Len(report) :
      report[i].title \in {"Multi-Valued Attribute", "Recursive Dependency",
                           "Generic Primary Key", "Metadata Tribbles",
                           "Imprecise Data Type", "SELECT *"}

\* C27 witness: at risk level 3 a statement on which rules of a lower risk
\* fire as well has been checked against every rule, and the report has a
\* finding
OnlyErrorRulesAtTierThreeWitness ==
  /\ state.risk_level = 3
  /\ ~aborted /\ pc = NumRules + 1
  /\ report # << >>
  /\ \E title \in WarnRules : Detected(title, sql_statement)
  /\ \E k \in 1..Len(Catalog) :
       /\ Catalog[k] \notin ErrorRules \cup WarnRules
       /\ Detected(Catalog[k], sql_statement)

\* C28: Entity-Attribute-Value Pattern, once evaluated on a statement at
\* tier 1 or 2, has fired if and only if the table name of the statement has
\* "attribute" in it; a statement with such a table name has "attribute" in
\* it, so that the pattern of the rule matches.
VariableAttributeFiresIffNamed ==
  /\ ( /\ Evaluated(CatalogIndex("Entity-Attribute-Value Pattern"))
        /\ state.risk_level <= 2 )
       => ( Reported("Entity-Attribute-Value Pattern")
              <=> Occurrences(attribute_text, GetTableName(sql_statement)) > 0 )
  /\ ( /\ statement_no >= 1
        /\ Occurrences(attribute_text, GetTableName(sql_statement)) > 0 )
       => /\ Occurrences(attribute_text, sql_statement) > 0
          /\ Occurrences(GetTableName(sql_statement), sql_statement) > 0
          /\ CountMatches(VariableAttributePattern, sql_statement) > 0

\* C28 witness: the rule has fired at tier 2 on a statement whose only
\* "attribute" is the one in its table name
VariableAttributeFiresIffNamedWitness ==
  /\ Evaluated(CatalogIndex("Entity-Attribute-Value Pattern"))
  /\ state.risk_level = 2
  /\ Occurrences(attribute_text, GetTableName(sql_statement)) = 1
  /\ Occurrences(attribute_text, sql_statement) = 1
  /\ Reported("Entity-Attribute-Value Pattern")

\* nothing but spaces comes after the first "create table" of s
NothingAfterCreateTable(s) ==
  LET clauses == {i \in 1..Len(s) : OccursAt(create_table_template, s, i)}
  IN /\ clauses # {}
     /\ \A i \in (Least(clauses) + Len(create_table_template))..Len(s) :
          s[i] = " "

\* C29: a statement with nothing or only spaces after "create table" has an
\* empty table name and is a CREATE statement all the same; on a statement
\* with an empty table name Recursive Dependency and Entity-Attribute-Value
\* Pattern do not fire and raise no error; a table name that is not empty
\* has no space in it and comes from a statement that is a CREATE and a DDL
\* statement.
EmptyTableNameIsNoTableName ==
  statement_no >= 1 =>
    \A table_name \in {GetTableName(sql_statement)} :
      /\ NothingAfterCreateTable(sql_statement)
           => /\ table_name = << >>
              /\ IsCreateStatement(sql_statement)
      /\ table_name = << >>
           => /\ ~aborted
              /\ ~Reported("Recursive Dependency")
              /\ ~Reported("Entity-Attribute-Value Pattern")
      /\ table_name # << >>
           => /\ IsCreateStatement(sql_statement)
              /\ IsDDLStatement(sql_statement)
              /\ \A i \in 1..Len(table_name) : table_name[i] # " "

\* C29 witness: a statement with spaces only after "create table" has been
\* checked against every rule: it has no finding of the two rules and has
\* the finding of a CREATE statement without a primary key
EmptyTableNameIsNoTableNameWitness ==
  /\ ~aborted /\ pc = NumRules + 1
  /\ sql_statement = <<"c","r","e","a","t","e"," ","t","a","b","l","e"," "," "," ">>
  /\ GetTableName(sql_statement) = << >>
  /\ IsCreateStatement(sql_statement)
  /\ Reported("Primary Key Does Not Exist")
  /\ ~Reported("Recursive Dependency")

\* C30: Primary Key Does Not Exist, Foreign Key Does Not Exist, Too Many
\* Indexes and NOT NULL Usage have no finding for a statement without
\* "create table"; Generic Primary Key, Metadata Tribbles and Values In
\* Definition have none for a statement without "create table" and without
\* "alter table".
GuardedRulesStayInTheirClass ==
  /\ Occurrences(create_table_template, sql_statement) = 0
       => \A title \in {"Primary Key Does Not Exist",
                         "Foreign Key Does Not Exist", "Too Many Indexes",
                         "NOT NULL Usage"} : ~Reported(title)
  /\ ( /\ Occurrences(create_table_template, sql_statement) = 0
        /\ Occurrences(alter_table_template, sql_statement) = 0 )
       => \A title \in {"Generic Primary Key", "Metadata Tribbles",
                         "Values In Definition"} : ~Reported(title)

\* C30 witness: an ALTER TABLE statement with "not null" and without
\* "primary key" and "foreign key" has been checked against every rule at
\* tier 1 and has no finding of the rules for CREATE TABLE
GuardedRulesStayInTheirClassWitness ==
  /\ ~aborted /\ pc = NumRules + 1
  /\ state.risk_level = 1
  /\ Occurrences(alter_table_template, sql_statement) > 0
  /\ Occurrences(create_table_template, sql_statement) = 0
  /\ Occurrences(<<"n","o","t"," ","n","u","l","l">>, sql_statement) > 0
  /\ Occurrences(<<"p","r","i","m","a","r","y"," ","k","e","y">>, sql_statement) = 0
  /\ Occurrences(<<"f","o","r","e","i","g","n"," ","k","e","y">>, sql_statement) = 0
  /\ \A title \in {"Primary Key Does Not Exist", "Foreign Key Does Not Exist",
                    "Too Many Indexes", "NOT NULL Usage"} : ~Reported(title)
=============================================================================
